---- MODULE Spec2Model ----
(***************************************************************************)
(* The task poller of the style-analysis page                              *)
(* (src/frontend/pages/analysis/analysis.js): job submission, the primary  *)
(* poll loop, the avatar poll loop, cancel, retry and page teardown.       *)
(* The virtual try-on of the index page (pages/index/index.js, kept in     *)
(* src/backend/tests/README.md) is modelled beside it, in SpecTryon.       *)
(*                                                                         *)
(* An async handler is cut at its await: the part before the await and the *)
(* continuation that runs when the request settles are separate steps, and *)
(* the values the handler captured before the await travel with the        *)
(* request.  Everything between two awaits is one atomic step (the page    *)
(* runs on one cooperative thread).                                        *)
(***************************************************************************)
EXTENDS Integers, Sequences, FiniteSets, TLC

(***************************************************************************)
(* Bounds of the model.  The page's budgets are 100 polls (primary) and 60 *)
(* polls (avatar); the model keeps the two names and checks with small     *)
(* budgets, every statement below being written in terms of the names.     *)
(***************************************************************************)
maxPollAttempts == 2
maxAvatarPollAttempts == 2
MaxTasks == 2
MaxInFlight == 2
MaxSubmits == 1
MaxPending == 2
MaxTimers == 2
\* the index page: 60 polls in the page; try-ons started, result requests awaited
maxPolls == 3
MaxTryons == 2
MaxTryRequests == 2
\* the app: launches, runs of autoLogin / manualLogin awaiting, wrapper requests awaiting
MaxLaunches == 2
MaxProcs == 3
MaxAppRequests == 2
\* the register page: the countdown starts at 60 in the page; timeouts of
\* sendVerifyCode pending, countdown intervals live, steps below zero explored,
\* register requests awaited
CountdownStart == 3
MaxSends == 2
MaxCountdowns == 2
MaxBelowZero == 2
MaxRegisterCalls == 1
\* the chat dialog: answers awaited, messages in the list, media of one send,
\* messages of the history
MaxAsked == 2
MaxMessages == 6
MaxMedia == 1
MaxHistory == 2
\* the wardrobe: pages of items a filter has, list requests awaited
MaxPages == 2
MaxLoads == 2

Kinds == {"primary", "avatar"}
Tasks == 1..MaxTasks
NoTask == 0
NoTimer == 0

\* the largest number of answered calls the per-session count distinguishes
TickCap == (IF maxPollAttempts > maxAvatarPollAttempts
            THEN maxPollAttempts ELSE maxAvatarPollAttempts) + 2

(***************************************************************************)
(* Values.  Strings of the page are kept as short tokens; null is "null".  *)
(***************************************************************************)
Progress == {"progress"}
ErrorMessages == {"X"}

\* result payload of a completed primary task, named by what avatar_info holds
Results == {"no_avatar_info", "generating", "generating_no_id", "completed",
            "no_user_images", "unknown_status", "null"}
\* result payload of an avatar task, named by the url it carries
AvatarResults == {"avatar_url", "fallback_avatar_url", "null"}

Transport == [http |-> "fail", success |-> FALSE, status |-> "", progress |-> "",
              result |-> "null", error_message |-> ""]
NotSuccess == [http |-> "200", success |-> FALSE, status |-> "", progress |-> "",
               result |-> "null", error_message |-> ""]
Ok(st, pr, res, msg) == [http |-> "200", success |-> TRUE, status |-> st,
                         progress |-> pr, result |-> res, error_message |-> msg]

\* The payloads the status endpoints answer with in the runs explored: a primary
\* result without avatar_info or with an avatar still generating, an avatar result
\* with or without its url.  The handlers below treat every payload of Results
\* and AvatarResults.
PolledResults(kind) ==
    IF kind = "primary" THEN {"no_avatar_info", "generating"} ELSE {"avatar_url", "null"}

\* what the status endpoint of a kind may answer: a rejected request (transport
\* failure, timeout, status code other than 200), success = false, or a success
\* with its status; pending is handled as running is
Responses(kind) ==
    {Transport, NotSuccess}
    \cup {Ok("running", pr, "null", "") : pr \in Progress \cup {""}}
    \cup {Ok("completed", "", res, "") : res \in PolledResults(kind)}
    \cup {Ok("error", "", "null", msg) : msg \in ErrorMessages \cup {""}}

VARIABLES
    page,       \* the Page instance: its data fields, this.pollTimer, this.avatarPollTimer
    timers,     \* the live interval timers of the runtime: [id, kind, task]
    inflight,   \* status requests awaiting their response, with the values captured
    submits,    \* submission requests (callAsyncAnalysisAPI) awaiting their response
    unloaded,   \* onUnload has run
    sess        \* per kind, the history of the current session (observation only)

vars == <<page, timers, inflight, submits, unloaded, sess>>

(***************************************************************************)
(* The index page (pages/index) with its virtual try-on, and what the      *)
(* runtime holds for it:                                                   *)
(*   isProcessing, tryonResult, currentSessionId, pollTimer: its data;     *)
(*   polls: the closures of startPolling, one per setInterval: the handle  *)
(*     (id), the sessionId and the pollCount they share with every run of  *)
(*     their callback, whether the interval is live, and the number of     *)
(*     times it has fired (ticks, observation only);                       *)
(*   requests: the calls of checkTryonResult awaiting their answer, each   *)
(*     with the handle of the closure that made it;                        *)
(*   starting: the sessions of startVirtualTryon between their first       *)
(*     upload and startPolling;                                            *)
(*   started: the number of try-ons started so far;                        *)
(*   unloaded: onUnload has run;                                           *)
(*   quiet: "reset" / "unload" from resetTryon / onUnload until the next   *)
(*     startVirtualTryon, "no" otherwise (observation only).               *)
(***************************************************************************)
VARIABLE index

InitIndex == [isProcessing |-> FALSE,
              tryonResult |-> "null",
              currentSessionId |-> 0,
              pollTimer |-> NoTimer,
              polls |-> {},
              requests |-> <<>>,
              starting |-> {},
              started |-> 0,
              unloaded |-> FALSE,
              quiet |-> "no"]

(***************************************************************************)
(* The App instance (src/frontend/app.js):                                 *)
(*   authToken, isLoggedIn: of globalData;                                 *)
(*   stored: fashion_auth_token of the storage, which outlives the app;    *)
(*   procs: the runs of autoLogin and manualLogin that await an answer,    *)
(*     each at its await: "verify" (verifyToken), "code" (tt.login) or     *)
(*     "openid" (loginWithOpenID);                                         *)
(*   requests: the calls of this.request awaiting their response;          *)
(*   launches: the number of times the app was launched.                   *)
(***************************************************************************)
VARIABLE app

InitApp == [authToken |-> "null",
            isLoggedIn |-> FALSE,
            stored |-> "null",
            procs |-> <<>>,
            requests |-> 0,
            launches |-> 0]

(***************************************************************************)
(* The register page (src/frontend/pages/register/register.js): the data   *)
(* fields the form and the countdown use (text fields as sequences of      *)
(* characters), this.countdownTimer, and of the runtime:                   *)
(*   timers: the handles of the live countdown intervals;                  *)
(*   sends: the timeouts of sendVerifyCode not yet fired;                  *)
(*   calls: the register requests awaiting their response;                 *)
(*   unloaded: onUnload has run.                                           *)
(***************************************************************************)
VARIABLE register

InitRegister == [currentStep |-> 1,
                 phone |-> <<>>,
                 verifyCode |-> <<>>,
                 phoneValid |-> FALSE,
                 phoneError |-> FALSE,
                 codeLoading |-> FALSE,
                 countdown |-> 0,
                 password |-> <<>>,
                 confirmPassword |-> <<>>,
                 agreeToTerms |-> FALSE,
                 isLoading |-> FALSE,
                 showSuccessModal |-> FALSE,
                 step1Valid |-> FALSE,
                 step2Valid |-> FALSE,
                 step3Valid |-> FALSE,
                 countdownTimer |-> NoTimer,
                 timers |-> {},
                 sends |-> 0,
                 calls |-> 0,
                 unloaded |-> FALSE]

(***************************************************************************)
(* The AI chat dialog (components/ai-chat-dialog): of its data, messages   *)
(* (each with its id and type), isLoading and messageId; and of the        *)
(* runtime:                                                                *)
(*   asked: the calls of callAIService awaiting their answer;              *)
(*   loading: loadHistoryMessages awaits the history;                      *)
(*   attached: the attached lifetime has run.                              *)
(***************************************************************************)
VARIABLE chat

InitChat == [messages |-> <<[id |-> 1, type |-> "ai"]>>,
             isLoading |-> FALSE,
             messageId |-> 2,
             asked |-> 0,
             loading |-> FALSE,
             attached |-> FALSE]

(***************************************************************************)
(* The wardrobe page (pages/wardrobe/wardrobe.js, in src/unnamed/part_000):*)
(* of its data, filters (one value for the whole filter object),           *)
(* wardrobeItems (one entry per page of items, saying which page of which  *)
(* filter it is), currentPage, hasMore and isLoading; and of the runtime:  *)
(*   loads: the requests of loadWardrobeItems awaiting their response,     *)
(*     with what the call captured before the await;                       *)
(*   applied: the list has been reset by applyFilters or refreshData, and  *)
(*   failed: a request failed since that reset (both observation only).    *)
(***************************************************************************)
VARIABLE wardrobe

\* the filter object of the data: no type selected
NoFilter == "all"

InitWardrobe == [filters |-> NoFilter,
                 wardrobeItems |-> <<>>,
                 currentPage |-> 1,
                 hasMore |-> TRUE,
                 isLoading |-> FALSE,
                 loads |-> <<>>,
                 applied |-> FALSE,
                 failed |-> FALSE]

\* what an action of one page leaves alone: the other pages and the app
besideAnalysis == <<index, app, register, chat, wardrobe>>
besideIndex == <<vars, app, register, chat, wardrobe>>
besideApp == <<vars, index, register, chat, wardrobe>>
besideRegister == <<vars, index, app, chat, wardrobe>>
besideChat == <<vars, index, app, register, wardrobe>>
besideWardrobe == <<vars, index, app, register, chat>>

\* data: { ... } of the page, and the two handles kept on the instance
InitPage == [isAnalyzing |-> FALSE,
             analysisStatus |-> "",
             analysisResult |-> "null",
             avatarUrl |-> "null",
             avatarStatus |-> "null",
             currentTaskId |-> NoTask,
             pollAttempts |-> 0,
             avatarTaskId |-> NoTask,
             avatarPollAttempts |-> 0,
             pollTimer |-> NoTimer,
             avatarPollTimer |-> NoTimer]

\* the part of the world a handler reads and writes; log is the order in which
\* the handler, within its one step, writes page data and clears timers
Cur == [page |-> page, timers |-> timers, inflight |-> inflight, log |-> <<>>]

\* this.setData(upd): the named fields are replaced, the others kept
setData(c, upd) ==
    [c EXCEPT !.page = [f \in DOMAIN c.page |->
                            IF f \in DOMAIN upd THEN upd[f] ELSE c.page[f]],
              !.log = Append(@, [op |-> "setData", fields |-> DOMAIN upd])]

clearInterval(c, h) ==
    [c EXCEPT !.timers = {t \in c.timers : t.id # h},
              !.log = Append(@, [op |-> "clearInterval", fields |-> {}])]

\* this.showToast(title, icon): the message is shown to the user
showToast(c, title) ==
    [c EXCEPT !.log = Append(@, [op |-> "showToast", fields |-> {title}])]

FreeId(ts) == CHOOSE i \in 1..(MaxTimers + 1) :
                 /\ \A t \in ts : t.id # i
                 /\ \A j \in 1..(i - 1) : \E t \in ts : t.id = j

\* setInterval(() => poll(task), pollInterval): a new live timer; its handle
setInterval(c, kind, task) ==
    [c EXCEPT !.timers = c.timers \cup {[id |-> FreeId(c.timers), kind |-> kind, task |-> task]}]


\* a status request leaves: tt.request(...) of checkTaskStatus / checkAvatarTaskStatus.
\* attempts is the counter value the handler destructured before the await.
Request(c, kind, task, attempts) ==
    [c EXCEPT !.inflight = Append(c.inflight,
        [kind |-> kind, task |-> task, attempts |-> attempts])]

stopTaskPolling(c) ==
    IF c.page.pollTimer # NoTimer
    THEN [clearInterval(c, c.page.pollTimer) EXCEPT !.page.pollTimer = NoTimer]
    ELSE c

\* the avatar handle is dropped and the interval left running
stopAvatarTaskPollingKeepsInterval(c) == [c EXCEPT !.page.avatarPollTimer = NoTimer]

stopAvatarTaskPolling(c) ==
    IF c.page.avatarPollTimer # NoTimer
    THEN [clearInterval(c, c.page.avatarPollTimer) EXCEPT !.page.avatarPollTimer = NoTimer]
    ELSE c

clearAllTimers(c) == stopAvatarTaskPolling(stopTaskPolling(c))

\* the budget check written with > for >=
BudgetExhaustedLate(attempts, max) == attempts > max

\* if (pollAttempts >= maxPollAttempts)
BudgetExhausted(attempts, max) == attempts >= max

\* errorMessage || '未知错误'
FailedStatus(errorMessage) ==
    IF errorMessage = "" THEN "failed:unknown" ELSE "failed:" \o errorMessage

\* the failure is shown without the message of the server
handleTaskErrorNoMessage(c, errorMessage) ==
    setData(c, [isAnalyzing |-> FALSE, analysisStatus |-> "failed:unknown"])

handleTaskError(c, errorMessage) ==
    setData(c, [isAnalyzing |-> FALSE, analysisStatus |-> FailedStatus(errorMessage)])

\* avatarResult && avatarResult.avatar_url, avatarResult && avatarResult.fallback_avatar_url
HasAvatarUrl(avatarResult) == avatarResult \in {"avatar_url", "both_urls"}
HasFallbackUrl(avatarResult) == avatarResult \in {"fallback_avatar_url", "both_urls"}

\* the failure never looks for the fallback avatar
handleAvatarTaskErrorIgnoresFallback(c, errorMessage, avatarResult) ==
    setData(c, [avatarStatus |-> "error", analysisStatus |-> "avatar_error"])

handleAvatarTaskError(c, errorMessage, avatarResult) ==
    IF HasFallbackUrl(avatarResult)
    THEN setData(c, [avatarUrl |-> "fallback_avatar_url", avatarStatus |-> "fallback",
                     analysisStatus |-> "avatar_error_fallback"])
    ELSE setData(c, [avatarStatus |-> "error", analysisStatus |-> "avatar_error"])

\* the avatar completion also ends the analysis on the page
handleAvatarTaskCompletedEndsAnalysis(c, avatarResult) ==
    CASE HasAvatarUrl(avatarResult) ->
            setData(c, [avatarUrl |-> "avatar_url", avatarStatus |-> "completed",
                        isAnalyzing |-> FALSE, analysisStatus |-> "avatar_done"])
      [] HasFallbackUrl(avatarResult) /\ ~HasAvatarUrl(avatarResult) ->
            setData(c, [avatarUrl |-> "fallback_avatar_url", avatarStatus |-> "fallback",
                        isAnalyzing |-> FALSE, analysisStatus |-> "avatar_fallback"])
      [] OTHER -> handleAvatarTaskError(c, "avatar_data", avatarResult)

handleAvatarTaskCompleted(c, avatarResult) ==
    CASE HasAvatarUrl(avatarResult) ->
            setData(c, [avatarUrl |-> "avatar_url", avatarStatus |-> "completed",
                        analysisStatus |-> "avatar_done"])
      [] HasFallbackUrl(avatarResult) /\ ~HasAvatarUrl(avatarResult) ->
            setData(c, [avatarUrl |-> "fallback_avatar_url", avatarStatus |-> "fallback",
                        analysisStatus |-> "avatar_fallback"])
      [] OTHER -> handleAvatarTaskError(c, "avatar_data", avatarResult)

\* pollAvatarTaskStatus up to its await
pollAvatarTaskStatus(c, avatarTaskId) ==
    IF BudgetExhausted(c.page.avatarPollAttempts, maxAvatarPollAttempts)
    THEN setData(stopAvatarTaskPolling(c),
                 [avatarStatus |-> "timeout", analysisStatus |-> "avatar_timeout"])
    ELSE Request(c, "avatar", avatarTaskId, c.page.avatarPollAttempts)

\* pollAvatarTaskStatus from its await on; a rejected request lands in the catch
pollAvatarTaskStatusResume(c, req, resp) ==
    IF resp.http = "fail" THEN c
    ELSE LET c1 == setData(c, [avatarPollAttempts |-> req.attempts + 1]) IN
         IF ~resp.success THEN c1
         ELSE CASE resp.status = "completed" ->
                     handleAvatarTaskCompleted(stopAvatarTaskPolling(c1), resp.result)
                [] resp.status = "error" ->
                     handleAvatarTaskError(stopAvatarTaskPolling(c1),
                                           resp.error_message, resp.result)
                [] OTHER -> c1

startAvatarTaskPolling(c, avatarTaskId) ==
    LET c1 == pollAvatarTaskStatus(c, avatarTaskId) IN
    [setInterval(c1, "avatar", avatarTaskId)
        EXCEPT !.page.avatarPollTimer = FreeId(c1.timers)]

\* the avatar session is started without its counter being reset
handleTaskCompletedKeepsCounter(c, result, avatarTaskId) ==
    LET c1 == setData(c, [isAnalyzing |-> FALSE, analysisResult |-> result]) IN
    IF result = "generating"
    THEN startAvatarTaskPolling(
             setData(c1, [avatarTaskId |-> avatarTaskId,
                          avatarStatus |-> "generating",
                          analysisStatus |-> "done_avatar_generating"]),
             avatarTaskId)
    ELSE c1

\* handleTaskCompleted(result); avatarTaskId is result.avatar_info.avatar_task_id.
\* A missing result makes result.avatar_info throw after the first setData; the
\* exception ends in the catch of pollTaskStatus.
handleTaskCompleted(c, result, avatarTaskId) ==
    LET c1 == setData(c, [isAnalyzing |-> FALSE, analysisResult |-> result]) IN
    CASE result = "null" -> c1
      [] result = "generating" ->
            startAvatarTaskPolling(
                setData(c1, [avatarTaskId |-> avatarTaskId,
                             avatarStatus |-> "generating",
                             analysisStatus |-> "done_avatar_generating",
                             avatarPollAttempts |-> 0]),
                avatarTaskId)
      [] result = "completed" ->
            setData(c1, [avatarUrl |-> "avatar_url", avatarStatus |-> "completed",
                         analysisStatus |-> "done_with_avatar"])
      [] result = "no_user_images" ->
            setData(c1, [avatarStatus |-> "no_user_images",
                         analysisStatus |-> "done_no_user_images"])
      [] result = "no_avatar_info" -> setData(c1, [analysisStatus |-> "done"])
      [] OTHER -> c1

\* pollTaskStatus up to its await
pollTaskStatus(c, taskId) ==
    IF BudgetExhausted(c.page.pollAttempts, maxPollAttempts)
    THEN setData(stopTaskPolling(c), [isAnalyzing |-> FALSE, analysisStatus |-> "timeout"])
    ELSE Request(c, "primary", taskId, c.page.pollAttempts)

\* a pending or running task ends the poll
pollTaskStatusResumeStopsOnRunning(c, req, resp) ==
    IF resp.http = "fail" THEN c
    ELSE LET c1 == setData(c, [pollAttempts |-> req.attempts + 1]) IN
         IF ~resp.success THEN c1
         ELSE LET c2 == IF resp.progress # ""
                        THEN setData(c1, [analysisStatus |-> resp.progress])
                        ELSE c1 IN
              CASE resp.status = "completed" ->
                     handleTaskCompleted(stopTaskPolling(c2), resp.result, req.task)
                [] resp.status = "error" ->
                     handleTaskError(stopTaskPolling(c2), resp.error_message)
                [] OTHER -> stopTaskPolling(c2)

\* a response with success = false ends the poll
pollTaskStatusResumeStopsOnFailure(c, req, resp) ==
    IF resp.http = "fail" THEN c
    ELSE LET c1 == setData(c, [pollAttempts |-> req.attempts + 1]) IN
         IF ~resp.success THEN stopTaskPolling(c1)
         ELSE LET c2 == IF resp.progress # ""
                        THEN setData(c1, [analysisStatus |-> resp.progress])
                        ELSE c1 IN
              CASE resp.status = "completed" ->
                     handleTaskCompleted(stopTaskPolling(c2), resp.result, req.task)
                [] resp.status = "error" ->
                     handleTaskError(stopTaskPolling(c2), resp.error_message)
                [] OTHER -> c2

\* pollTaskStatus from its await on; a rejected request lands in the catch
pollTaskStatusResume(c, req, resp) ==
    IF resp.http = "fail" THEN c
    ELSE LET c1 == setData(c, [pollAttempts |-> req.attempts + 1]) IN
         IF ~resp.success THEN c1
         ELSE LET c2 == IF resp.progress # ""
                        THEN setData(c1, [analysisStatus |-> resp.progress])
                        ELSE c1 IN
              CASE resp.status = "completed" ->
                     handleTaskCompleted(stopTaskPolling(c2), resp.result, req.task)
                [] resp.status = "error" ->
                     handleTaskError(stopTaskPolling(c2), resp.error_message)
                [] OTHER -> c2

startTaskPolling(c, taskId) ==
    LET c1 == pollTaskStatus(c, taskId) IN
    [setInterval(c1, "primary", taskId) EXCEPT !.page.pollTimer = FreeId(c1.timers)]


(***************************************************************************)
(* Observation of the run.  Nothing of sess is read by a handler.          *)
(*   sess[kind].solo: the session of that kind runs alone: nothing of an   *)
(*     earlier session was left when it began, and no user operation since;*)
(*   calls: the number of calls the status endpoint has answered to the    *)
(*     session, each answer processed in the order of the calls (the       *)
(*     immediate check of start is call 1);                                *)
(*   script: what the endpoint answered so far: "running" (a successful    *)
(*     running on every call), "completed" / "error" (running on every     *)
(*     call but the last, which answered completed / error), or "other"    *)
(*     (anything else, or an answer processed out of order);               *)
(*   payload: the result or the error_message of that last answer.         *)
(***************************************************************************)
Dead == [solo |-> FALSE, calls |-> 0, script |-> "other", payload |-> ""]
Started(solo) ==
    IF solo THEN [solo |-> TRUE, calls |-> 0, script |-> "running", payload |-> ""]
    ELSE Dead

Answered(s, inOrder, resp) ==
    IF ~s.solo THEN s
    ELSE IF s.script # "running" \/ ~resp.success \/ ~inOrder
    THEN [s EXCEPT !.calls = 0, !.script = "other", !.payload = ""]
    ELSE LET n == IF s.calls < TickCap THEN s.calls + 1 ELSE TickCap IN
         CASE resp.status = "completed" ->
                 [s EXCEPT !.calls = n, !.script = "completed", !.payload = resp.result]
           [] resp.status = "error" ->
                 [s EXCEPT !.calls = n, !.script = "error", !.payload = resp.error_message]
           [] OTHER -> [s EXCEPT !.calls = n]

Remove(q, i) == [j \in 1..(Len(q) - 1) |-> IF j < i THEN q[j] ELSE q[j + 1]]

OfKind(q, kind) == {i \in DOMAIN q : q[i].kind = kind}
TimersOf(ts, kind) == {t \in ts : t.kind = kind}

\* ids the page, a timer or a request still refers to; a new task gets another one
UsedTasks ==
    {page.currentTaskId, page.avatarTaskId}
    \cup {t.task : t \in timers} \cup {inflight[i].task : i \in DOMAIN inflight}

\* the id the server gives the next task: the first one nothing refers to
NewTask == CHOOSE t \in 1..(MaxTasks + 1) :
              /\ t \notin UsedTasks
              /\ \A u \in 1..(t - 1) : u \in UsedTasks

Terminal(resp) == resp.success /\ resp.status \in {"completed", "error"}
NonTerminal(resp) == resp.success /\ resp.status \notin {"completed", "error"}

Fits(c) == Len(c.inflight) <= MaxInFlight /\ Cardinality(c.timers) <= MaxTimers

\* the handler ends in world c
Apply(c) ==
    /\ Fits(c)
    /\ page' = c.page
    /\ timers' = c.timers
    /\ inflight' = c.inflight
    /\ UNCHANGED besideAnalysis

Init ==
    /\ page = InitPage
    /\ timers = {}
    /\ inflight = <<>>
    /\ submits = 0
    /\ unloaded = FALSE
    /\ sess = [k \in Kinds |-> Dead]
    /\ index = InitIndex
    /\ app = InitApp
    /\ register = InitRegister
    /\ chat = InitChat
    /\ wardrobe = InitWardrobe

(***************************************************************************)
(* startAnalysis up to its await.  valid is the verdict of validateInput   *)
(* on the images and text the user entered: a failed validation shows its  *)
(* toast and returns.                                                      *)
(***************************************************************************)
startAnalysis(c, valid) ==
    IF ~valid THEN showToast(c, "input_required")
    ELSE setData(clearAllTimers(c),
                 [isAnalyzing |-> TRUE,
                  analysisStatus |-> "starting",
                  pollAttempts |-> 0,
                  currentTaskId |-> NoTask,
                  analysisResult |-> "null"])

\* a valid startAnalysis while fewer than limit submissions are pending
Submit(limit) ==
    /\ submits < limit
    /\ LET c == startAnalysis(Cur, TRUE)
       IN /\ Apply(c)
          /\ sess' = [primary |-> Started(/\ c.timers = {}
                                          /\ inflight = <<>>
                                          /\ submits = 0),
                      avatar |-> Dead]
    /\ submits' = submits + 1
    /\ UNCHANGED unloaded

StartAnalysis ==
    /\ ~unloaded
    /\ \E valid \in BOOLEAN :
         IF ~valid
         THEN /\ Apply(startAnalysis(Cur, FALSE))
              /\ UNCHANGED <<submits, unloaded, sess>>
         ELSE Submit(MaxSubmits)

\* what the submission endpoint may answer: a rejected request, success = false,
\* or success with the id of the new task
SubmitResponses ==
    {[http |-> "fail", success |-> FALSE, task_id |-> NoTask],
     [http |-> "200", success |-> FALSE, task_id |-> NoTask]}
    \cup {[http |-> "200", success |-> TRUE, task_id |-> t] : t \in Tasks}

(***************************************************************************)
(* startAnalysis from its await on: the submission settles with r.  A      *)
(* rejected request and success = false both end in the catch.             *)
(***************************************************************************)
startAnalysisResume(c, r) ==
    IF r.http = "200" /\ r.success
    THEN startTaskPolling(setData(c, [currentTaskId |-> r.task_id,
                                      analysisStatus |-> "started"]), r.task_id)
    ELSE showToast(setData(c, [isAnalyzing |-> FALSE,
                               analysisStatus |-> "start_failed"]),
                   "start_failed")

Accepted(r) == r.http = "200" /\ r.success

SubmitResponse(r) ==
    /\ submits > 0
    /\ submits' = submits - 1
    /\ UNCHANGED unloaded
    /\ Accepted(r) => r.task_id = NewTask
    /\ Apply(startAnalysisResume(Cur, r))
    /\ sess' = IF Accepted(r) THEN sess ELSE [sess EXCEPT !.primary = Dead]

(***************************************************************************)
(* A live interval timer fires: the callback given to setInterval.         *)
(***************************************************************************)
Tick(t) ==
    /\ t \in timers
    /\ Apply(IF t.kind = "primary"
             THEN pollTaskStatus(Cur, t.task)
             ELSE pollAvatarTaskStatus(Cur, t.task))
    /\ UNCHANGED <<submits, unloaded, sess>>

(***************************************************************************)
(* The status request inflight[i] settles with resp, and the handler that  *)
(* awaited it runs to its end.                                             *)
(***************************************************************************)
Settle(i, resp) ==
    /\ i \in DOMAIN inflight
    /\ LET req == inflight[i]
           c0 == [Cur EXCEPT !.inflight = Remove(inflight, i)]
           c == IF req.kind = "primary"
                THEN pollTaskStatusResume(c0, req, resp)
                ELSE pollAvatarTaskStatusResume(c0, req, resp)
           startsAvatar == /\ req.kind = "primary"
                           /\ resp.success /\ resp.status = "completed"
                           /\ resp.result = "generating"
       IN /\ Apply(c)
          /\ sess' = [k \in Kinds |->
                        IF k = "avatar" /\ startsAvatar
                        THEN Started(/\ timers \subseteq {t \in timers : t.id = page.pollTimer}
                                     /\ Len(inflight) = 1
                                     /\ submits = 0
                                     /\ ~unloaded)
                        ELSE IF k = req.kind
                        THEN Answered(sess[k],
                                      \A j \in OfKind(inflight, k) : i <= j, resp)
                        ELSE sess[k]]
    /\ UNCHANGED <<submits, unloaded>>

Respond(i, resp) ==
    /\ i \in DOMAIN inflight
    /\ resp \in Responses(inflight[i].kind)
    /\ Settle(i, resp)

\* the cancel that leaves the attempt counters as they are
cancelAnalysisKeepsCounters(c) ==
    showToast(setData(stopAvatarTaskPolling(stopTaskPolling(c)),
                      [isAnalyzing |-> FALSE,
                       analysisStatus |-> "cancelled",
                       currentTaskId |-> NoTask,
                       avatarTaskId |-> NoTask,
                       avatarStatus |-> "null"]),
              "cancelled")

\* the success callback of the modal of cancelAnalysis, res.confirm being true
cancelAnalysis(c) ==
    showToast(setData(stopAvatarTaskPolling(stopTaskPolling(c)),
                      [isAnalyzing |-> FALSE,
                       analysisStatus |-> "cancelled",
                       currentTaskId |-> NoTask,
                       pollAttempts |-> 0,
                       avatarTaskId |-> NoTask,
                       avatarPollAttempts |-> 0,
                       avatarStatus |-> "null"]),
              "cancelled")

(***************************************************************************)
(* The user confirms the modal of cancelAnalysis: its success callback.    *)
(***************************************************************************)
CancelAnalysis ==
    /\ ~unloaded
    /\ Apply(cancelAnalysis(Cur))
    /\ sess' = [k \in Kinds |-> Dead]
    /\ UNCHANGED <<submits, unloaded>>

RetryAnalysis ==
    /\ ~unloaded
    /\ LET c == setData(clearAllTimers(Cur),
                        [analysisResult |-> "null",
                         avatarUrl |-> "null",
                         avatarStatus |-> "null",
                         analysisStatus |-> "",
                         isAnalyzing |-> FALSE,
                         currentTaskId |-> NoTask,
                         pollAttempts |-> 0,
                         avatarTaskId |-> NoTask,
                         avatarPollAttempts |-> 0])
       IN Apply(c)
    /\ sess' = [k \in Kinds |-> Dead]
    /\ UNCHANGED <<submits, unloaded>>

\* onUnload: the page is torn down
OnUnload ==
    /\ ~unloaded
    /\ Apply(clearAllTimers(Cur))
    /\ unloaded' = TRUE
    /\ sess' = [k \in Kinds |-> Dead]
    /\ UNCHANGED submits

Next ==
    \/ StartAnalysis
    \/ \E r \in SubmitResponses : SubmitResponse(r)
    \/ \E t \in timers : Tick(t)
    \/ \E i \in DOMAIN inflight : \E resp \in Responses(inflight[i].kind) : Respond(i, resp)
    \/ CancelAnalysis
    \/ RetryAnalysis

Spec == Init /\ [][Next]_vars

(***************************************************************************)
(* startAnalysis has no guard on isAnalyzing: the user may start again     *)
(* while a submission is still pending (a second tap, or a start after a   *)
(* cancel).  SpecResubmit lets MaxPending submissions be pending at once.  *)
(***************************************************************************)
StartAnalysisAgain == ~unloaded /\ submits >= MaxSubmits /\ Submit(MaxPending)

NextResubmit == Next \/ StartAnalysisAgain

SpecResubmit == Init /\ [][NextResubmit]_vars

(***************************************************************************)
(* The scheduling the runtime gives: an interval timer that stays live     *)
(* keeps firing, and every request settles (each carries a timeout: 8 s    *)
(* for a status request, 10 s for the submission).                         *)
(***************************************************************************)
FairSpec ==
    /\ Spec
    /\ \A id \in 1..(MaxTimers + 1) : SF_vars(\E t \in timers : t.id = id /\ Tick(t))
    /\ WF_vars(\E i \in DOMAIN inflight :
                  \E resp \in Responses(inflight[i].kind) : Respond(i, resp))
    /\ WF_vars(\E r \in SubmitResponses : SubmitResponse(r))

\* the page with its teardown
NextUnload == Next \/ OnUnload

SpecUnload == Init /\ [][NextUnload]_vars

(***************************************************************************)
(* The page with every shape of payload the handlers distinguish: the      *)
(* status endpoint answers with success, a completed primary task carries  *)
(* any of Results, an avatar task completes or fails with any of           *)
(* AvatarResults.  (Requests that fail are explored by Spec.)              *)
(***************************************************************************)
ResultsOf(kind) == IF kind = "primary" THEN Results ELSE AvatarResults

AllResponses(kind) ==
    {Ok("running", pr, "null", "") : pr \in Progress}
    \cup {Ok("completed", "", res, "") : res \in ResultsOf(kind)}
    \cup {Ok("error", "", res, msg) :
              res \in (IF kind = "primary" THEN {"null"} ELSE AvatarResults),
              msg \in ErrorMessages \cup {""}}

RespondAny(i, resp) ==
    /\ i \in DOMAIN inflight
    /\ resp \in AllResponses(inflight[i].kind)
    /\ Settle(i, resp)

NextPayloads ==
    \/ StartAnalysis
    \/ \E r \in SubmitResponses : SubmitResponse(r)
    \/ \E t \in timers : Tick(t)
    \/ \E i \in DOMAIN inflight : \E resp \in AllResponses(inflight[i].kind) : RespondAny(i, resp)
    \/ CancelAnalysis
    \/ RetryAnalysis

SpecPayloads == Init /\ [][NextPayloads]_vars

(***************************************************************************)
(* The virtual try-on of the index page.  x is the index page as above.    *)
(***************************************************************************)
Closure(x, h) == CHOOSE p \in x.polls : p.id = h

FreeHandle(x) == CHOOSE i \in 1..(Cardinality(x.polls) + 1) :
                    /\ \A p \in x.polls : p.id # i
                    /\ \A j \in 1..(i - 1) : \E p \in x.polls : p.id = j

\* clearInterval(h): the interval stops firing; a handle that is null or names
\* no live interval clears nothing
clearTryonInterval(x, h) ==
    [x EXCEPT !.polls = {IF p.id = h THEN [p EXCEPT !.live = FALSE] ELSE p : p \in @}]

\* a closure whose interval is cleared and that awaits no answer is gone
Collect(x) ==
    [x EXCEPT !.polls = {p \in @ : p.live \/ \E j \in DOMAIN x.requests :
                                                  x.requests[j].timer = p.id}]

\* what checkTryonResult may settle with: the promise is rejected (the request
\* failed or the status code is not 200), or it resolves with the status of the
\* try-on
TryonAnswers == {"rejected", "processing", "completed", "failed"}

\* startVirtualTryon up to its first await; ready: the photo, the clothes, the
\* token and the user info are all there
startVirtualTryon(x, ready) ==
    IF ~ready THEN x
    ELSE [x EXCEPT !.isProcessing = TRUE,
                   !.tryonResult = "null",
                   !.currentSessionId = x.started + 1,
                   !.starting = @ \cup {x.started + 1},
                   !.started = @ + 1,
                   !.quiet = "no"]

\* startPolling(sessionId): the interval is set and its handle kept in the data
startPolling(x, sessionId) ==
    [x EXCEPT !.polls = @ \cup {[id |-> FreeHandle(x), sessionId |-> sessionId,
                                 pollCount |-> 0, ticks |-> 0, live |-> TRUE]},
              !.pollTimer = FreeHandle(x)]

\* startVirtualTryon from its awaits on: the uploads and startProcessing went
\* through (ok), or one of them threw
startVirtualTryonResume(x, sessionId, ok) ==
    LET x1 == [x EXCEPT !.starting = @ \ {sessionId}] IN
    IF ok THEN startPolling(x1, sessionId)
    ELSE [x1 EXCEPT !.isProcessing = FALSE]

\* the callback of the interval up to its await: pollCount++ and the request
tryonTick(x, h) ==
    [x EXCEPT !.polls = {IF p.id = h
                         THEN [p EXCEPT !.pollCount = @ + 1, !.ticks = @ + 1]
                         ELSE p : p \in @},
              !.requests = Append(@, [timer |-> h])]

\* pollCount >= maxPolls
PollsExhausted(pollCount) == pollCount >= maxPolls

\* the poll is given up: isProcessing false, clearInterval(pollTimer)
tryonGiveUp(x, h) == clearTryonInterval([x EXCEPT !.isProcessing = FALSE], h)

\* the callback of the interval from its await on, for the request requests[j]
tryonResume(x, j, answer) ==
    LET h == x.requests[j].timer
        x1 == [x EXCEPT !.requests = Remove(@, j)]
    IN Collect(
        CASE answer = "completed" ->
                clearTryonInterval([x1 EXCEPT !.isProcessing = FALSE,
                                              !.tryonResult = "image"], h)
          [] answer = "failed" -> tryonGiveUp(x1, h)
          [] answer = "processing" ->
                IF PollsExhausted(Closure(x1, h).pollCount) THEN tryonGiveUp(x1, h)
                ELSE x1
          [] OTHER ->
                LET x2 == [x1 EXCEPT !.polls = {IF p.id = h
                                                THEN [p EXCEPT !.pollCount = @ + 1]
                                                ELSE p : p \in @}]
                IN IF PollsExhausted(Closure(x2, h).pollCount) THEN tryonGiveUp(x2, h)
                   ELSE x2)

resetTryon(x) ==
    [clearTryonInterval(x, x.pollTimer)
        EXCEPT !.isProcessing = FALSE,
               !.tryonResult = "null",
               !.currentSessionId = 0,
               !.pollTimer = NoTimer,
               !.quiet = "reset"]

\* onUnload of the index page
indexOnUnload(x) ==
    [clearTryonInterval(x, x.pollTimer) EXCEPT !.unloaded = TRUE, !.quiet = "unload"]

StartVirtualTryon ==
    /\ ~index.unloaded
    /\ \E ready \in BOOLEAN :
          /\ ready => index.started < MaxTryons
          /\ index' = startVirtualTryon(index, ready)
    /\ UNCHANGED besideIndex

TryonStarted(sessionId, ok) ==
    /\ sessionId \in index.starting
    /\ index' = startVirtualTryonResume(index, sessionId, ok)
    /\ UNCHANGED besideIndex

TryonTick(h) ==
    /\ \E p \in index.polls : p.id = h /\ p.live /\ p.ticks <= maxPolls
    /\ Len(index.requests) < MaxTryRequests
    /\ index' = tryonTick(index, h)
    /\ UNCHANGED besideIndex

TryonAnswer(j, answer) ==
    /\ j \in DOMAIN index.requests
    /\ index' = tryonResume(index, j, answer)
    /\ UNCHANGED besideIndex

ResetTryon ==
    /\ ~index.unloaded
    /\ index' = Collect(resetTryon(index))
    /\ UNCHANGED besideIndex

IndexOnUnload ==
    /\ ~index.unloaded
    /\ index' = Collect(indexOnUnload(index))
    /\ UNCHANGED besideIndex

NextTryon ==
    \/ StartVirtualTryon
    \/ \E sessionId \in 1..MaxTryons : \E ok \in BOOLEAN : TryonStarted(sessionId, ok)
    \/ \E h \in 1..MaxTryons : TryonTick(h)
    \/ \E j \in 1..MaxTryRequests : \E answer \in TryonAnswers : TryonAnswer(j, answer)
    \/ ResetTryon
    \/ IndexOnUnload

SpecTryon == Init /\ [][NextTryon]_index

(***************************************************************************)
(* The login state of the App instance.  g is the app as above.            *)
(***************************************************************************)
\* restoreUserData: the token of the storage, if any, is taken as logged in
restoreUserData(g) ==
    IF g.stored # "null"
    THEN [g EXCEPT !.authToken = g.stored, !.isLoggedIn = TRUE]
    ELSE g

\* autoLogin up to its first await: verifyToken with a token, tt.login without
autoLogin(g) ==
    [g EXCEPT !.procs = Append(@, IF g.authToken # "null" THEN "verify" ELSE "code")]

\* the App is constructed and onLaunch runs: initApp, then autoLogin
onLaunch(g) ==
    autoLogin(restoreUserData([InitApp EXCEPT !.stored = g.stored,
                                              !.launches = g.launches + 1]))

onShow(g) == IF ~g.isLoggedIn THEN autoLogin(g) ELSE g

\* verifyToken settles for procs[i]: status 200 (ok) marks the user logged in and
\* autoLogin returns; otherwise autoLogin goes on to tt.login
verifyToken(g, i, ok) ==
    IF ok THEN [g EXCEPT !.isLoggedIn = TRUE, !.procs = Remove(@, i)]
    ELSE [g EXCEPT !.procs = [@ EXCEPT ![i] = "code"]]

\* tt.login settles: with a code the openid login is requested
getDouyinLoginCode(g, i, ok) ==
    IF ok THEN [g EXCEPT !.procs = [@ EXCEPT ![i] = "openid"]]
    ELSE [g EXCEPT !.procs = Remove(@, i)]

\* loginWithOpenID settles: status 200 (ok) carries the access token
loginWithOpenID(g, i, ok) ==
    IF ok THEN [g EXCEPT !.authToken = "token", !.isLoggedIn = TRUE,
                         !.stored = "token", !.procs = Remove(@, i)]
    ELSE [g EXCEPT !.procs = Remove(@, i)]

\* manualLogin up to its first await
manualLogin(g) == [g EXCEPT !.procs = Append(@, "code")]

\* login(userInfo, token), called by the login page with the token of the server
login(g) == [g EXCEPT !.authToken = "token", !.isLoggedIn = TRUE, !.stored = "token"]

logout(g) == [g EXCEPT !.authToken = "null", !.isLoggedIn = FALSE, !.stored = "null"]

\* the success callback of this.request: a 401 logs the user out
requestDone(g, status) ==
    LET g1 == [g EXCEPT !.requests = @ - 1] IN
    IF status = 401 THEN logout(g1) ELSE g1

OnLaunch ==
    /\ app.launches < MaxLaunches
    /\ app' = onLaunch(app)
    /\ UNCHANGED besideApp

Launched == app.launches > 0

OnShow ==
    /\ Launched
    /\ Len(app.procs) < MaxProcs
    /\ app' = onShow(app)
    /\ UNCHANGED besideApp

VerifyTokenDone(i, ok) ==
    /\ i \in DOMAIN app.procs
    /\ app.procs[i] = "verify"
    /\ app' = verifyToken(app, i, ok)
    /\ UNCHANGED besideApp

LoginCodeDone(i, ok) ==
    /\ i \in DOMAIN app.procs
    /\ app.procs[i] = "code"
    /\ app' = getDouyinLoginCode(app, i, ok)
    /\ UNCHANGED besideApp

OpenIDLoginDone(i, ok) ==
    /\ i \in DOMAIN app.procs
    /\ app.procs[i] = "openid"
    /\ app' = loginWithOpenID(app, i, ok)
    /\ UNCHANGED besideApp

ManualLogin ==
    /\ Launched
    /\ Len(app.procs) < MaxProcs
    /\ app' = manualLogin(app)
    /\ UNCHANGED besideApp

Login ==
    /\ Launched
    /\ app' = login(app)
    /\ UNCHANGED besideApp

Logout ==
    /\ Launched
    /\ app' = logout(app)
    /\ UNCHANGED besideApp

AppRequest ==
    /\ Launched
    /\ app.requests < MaxAppRequests
    /\ app' = [app EXCEPT !.requests = @ + 1]
    /\ UNCHANGED besideApp

AppRequestDone(status) ==
    /\ app.requests > 0
    /\ app' = requestDone(app, status)
    /\ UNCHANGED besideApp

NextApp ==
    \/ OnLaunch
    \/ OnShow
    \/ \E i \in 1..MaxProcs : \E ok \in BOOLEAN :
          VerifyTokenDone(i, ok) \/ LoginCodeDone(i, ok) \/ OpenIDLoginDone(i, ok)
    \/ ManualLogin
    \/ Login
    \/ Logout
    \/ AppRequest
    \/ \E status \in {200, 401} : AppRequestDone(status)

SpecApp == Init /\ [][NextApp]_app

(***************************************************************************)
(* The register page.  r is the page as above.                             *)
(***************************************************************************)
Digits == {"0", "1", "2", "3", "4", "5", "6", "7", "8", "9"}

\* /^1[3-9]\d{9}$/.test(phone)
isValidPhone(phone) ==
    /\ Len(phone) = 11
    /\ phone[1] = "1"
    /\ phone[2] \in Digits \ {"0", "1", "2"}
    /\ \A n \in 3..11 : phone[n] \in Digits

\* the values the user types, one of each kind the checks tell apart
Phones ==
    {<<>>,
     <<"1", "3", "8", "0", "0", "1", "3", "8", "0", "0", "0">>,
     <<"1", "2", "8", "0", "0", "1", "3", "8", "0", "0", "0">>,
     <<"2", "3", "8", "0", "0", "1", "3", "8", "0", "0", "0">>,
     <<"1", "3", "8", "0", "0", "1", "3", "8", "0", "0">>,
     <<"1", "3", "8", "0", "0", "1", "3", "8", "0", "0", "0", "0">>,
     <<"1", "3", "8", "0", "0", "1", "3", "8", "0", "0", "x">>}

\* the verification code of the debug mode: '123456'
TestCode == <<"1", "2", "3", "4", "5", "6">>

Codes == {<<>>, <<"1", "2", "3">>, TestCode, <<"6", "5", "4", "3", "2", "1">>}

Passwords ==
    {<<>>, <<"a", "b", "c">>, <<"a", "b", "c", "d", "e", "f">>,
     <<"a", "b", "c", "d", "e", "g">>}

\* globalData.debug of the app
debug == TRUE

validateStep1(r) ==
    [r EXCEPT !.step1Valid = r.phoneValid /\ Len(r.verifyCode) = 6]

\* the confirmation is not compared with the password
validateStep2IgnoresConfirmation(r) ==
    [r EXCEPT !.step2Valid = ~(Len(r.password) < 6)]

validateStep2(r) ==
    LET isValid == /\ ~(Len(r.password) < 6)
                   /\ ~(r.confirmPassword # <<>> /\ r.password # r.confirmPassword)
    IN [r EXCEPT !.step2Valid = /\ isValid
                                /\ r.password = r.confirmPassword
                                /\ Len(r.confirmPassword) > 0]

validateStep3(r) == [r EXCEPT !.step3Valid = r.agreeToTerms]

onPhoneInput(r, phone) ==
    validateStep1([r EXCEPT !.phone = phone,
                            !.phoneValid = isValidPhone(phone),
                            !.phoneError = FALSE])

onCodeInput(r, verifyCode) == validateStep1([r EXCEPT !.verifyCode = verifyCode])

onPasswordInput(r, password) == validateStep2([r EXCEPT !.password = password])

onConfirmPasswordInput(r, confirmPassword) ==
    validateStep2([r EXCEPT !.confirmPassword = confirmPassword])

toggleAgreement(r) == validateStep3([r EXCEPT !.agreeToTerms = ~r.agreeToTerms])

nextStep(r) == IF r.currentStep < 3 THEN [r EXCEPT !.currentStep = @ + 1] ELSE r

prevStep(r) == IF r.currentStep > 1 THEN [r EXCEPT !.currentStep = @ - 1] ELSE r

validateAllSteps(r) == r.step1Valid /\ r.step2Valid /\ r.step3Valid

\* verifyCode(): the test code in debug mode, anything otherwise
verifyCode(r) == IF debug THEN r.verifyCode = TestCode ELSE TRUE

\* clearInterval(h) of the register page
clearCountdown(r, h) == [r EXCEPT !.timers = @ \ {h}]

\* handleRegisterError: the message names the phone, the password, or neither
handleRegisterError(r, about) ==
    CASE about = "phone" -> [r EXCEPT !.currentStep = 1, !.phoneError = TRUE]
      [] about = "password" -> [r EXCEPT !.currentStep = 2]
      [] OTHER -> r

\* handleRegister up to its await: the request leaves (calls) only past the two
\* checks; a wrong code ends in the catch and the finally
handleRegister(r) ==
    IF ~validateAllSteps(r) THEN r
    ELSE IF ~verifyCode(r)
    THEN [handleRegisterError([r EXCEPT !.isLoading = TRUE], "other")
             EXCEPT !.isLoading = FALSE]
    ELSE [r EXCEPT !.isLoading = TRUE, !.calls = @ + 1]

RegisterOutcomes == {"success", "phone", "password", "other"}

\* handleRegister from its await on
handleRegisterResume(r, outcome) ==
    LET r1 == [r EXCEPT !.calls = @ - 1]
        r2 == IF outcome = "success"
              THEN LET r3 == [r1 EXCEPT !.showSuccessModal = TRUE]
                   IN IF r3.countdownTimer # NoTimer
                      THEN clearCountdown(r3, r3.countdownTimer) ELSE r3
              ELSE handleRegisterError(r1, outcome)
    IN [r2 EXCEPT !.isLoading = FALSE]

\* sendVerifyCode: the timeout of 1500 ms is set when the phone is valid
sendVerifyCode(r) ==
    IF ~r.phoneValid THEN [r EXCEPT !.phoneError = TRUE]
    ELSE [r EXCEPT !.codeLoading = TRUE, !.sends = @ + 1]

FreeCountdown(r) == CHOOSE h \in 1..(Cardinality(r.timers) + 1) :
                       /\ h \notin r.timers
                       /\ \A k \in 1..(h - 1) : k \in r.timers

\* startCountdown: the interval is set and its handle kept
startCountdown(r) ==
    [r EXCEPT !.timers = @ \cup {FreeCountdown(r)}, !.countdownTimer = FreeCountdown(r)]

\* the callback of the timeout of sendVerifyCode
verifyCodeSent(r) ==
    startCountdown([r EXCEPT !.codeLoading = FALSE,
                             !.countdown = CountdownStart,
                             !.sends = @ - 1])

\* the callback of the interval of startCountdown
countdownTick(r) ==
    LET r1 == [r EXCEPT !.countdown = @ - 1]
    IN IF r1.countdown <= 0 THEN clearCountdown(r1, r1.countdownTimer) ELSE r1

\* onUnload of the register page
registerOnUnload(r) ==
    [(IF r.countdownTimer # NoTimer THEN clearCountdown(r, r.countdownTimer) ELSE r)
        EXCEPT !.unloaded = TRUE]

Shown == ~register.unloaded

OnPhoneInput(phone) ==
    /\ Shown
    /\ register' = onPhoneInput(register, phone)
    /\ UNCHANGED besideRegister

OnCodeInput(code) ==
    /\ Shown
    /\ register' = onCodeInput(register, code)
    /\ UNCHANGED besideRegister

OnPasswordInput(password) ==
    /\ Shown
    /\ register' = onPasswordInput(register, password)
    /\ UNCHANGED besideRegister

OnConfirmPasswordInput(password) ==
    /\ Shown
    /\ register' = onConfirmPasswordInput(register, password)
    /\ UNCHANGED besideRegister

ToggleAgreement ==
    /\ Shown
    /\ register' = toggleAgreement(register)
    /\ UNCHANGED besideRegister

NextStep ==
    /\ Shown
    /\ register' = nextStep(register)
    /\ UNCHANGED besideRegister

PrevStep ==
    /\ Shown
    /\ register' = prevStep(register)
    /\ UNCHANGED besideRegister

HandleRegister ==
    /\ Shown
    /\ register.calls < MaxRegisterCalls
    /\ register' = handleRegister(register)
    /\ UNCHANGED besideRegister

RegisterDone(outcome) ==
    /\ register.calls > 0
    /\ register' = handleRegisterResume(register, outcome)
    /\ UNCHANGED besideRegister

NextRegister ==
    \/ \E phone \in Phones : OnPhoneInput(phone)
    \/ \E code \in Codes : OnCodeInput(code)
    \/ \E password \in Passwords :
          OnPasswordInput(password) \/ OnConfirmPasswordInput(password)
    \/ ToggleAgreement
    \/ NextStep
    \/ PrevStep
    \/ HandleRegister
    \/ \E outcome \in RegisterOutcomes : RegisterDone(outcome)

SpecRegister == Init /\ [][NextRegister]_register

SendVerifyCode ==
    /\ Shown
    /\ register.phoneValid => register.sends < MaxSends
    /\ register' = sendVerifyCode(register)
    /\ UNCHANGED besideRegister

VerifyCodeSent ==
    /\ register.sends > 0
    /\ Cardinality(register.timers) < MaxCountdowns
    /\ register' = verifyCodeSent(register)
    /\ UNCHANGED besideRegister

CountdownTick(h) ==
    /\ h \in register.timers
    /\ register.countdown > -MaxBelowZero
    /\ register' = countdownTick(register)
    /\ UNCHANGED besideRegister

RegisterOnUnload ==
    /\ Shown
    /\ register' = registerOnUnload(register)
    /\ UNCHANGED besideRegister

\* the countdown of the verification code, the phone typed being valid or empty
NextCountdown ==
    \/ \E phone \in {p \in Phones : p = <<>> \/ isValidPhone(p)} : OnPhoneInput(phone)
    \/ SendVerifyCode
    \/ VerifyCodeSent
    \/ \E h \in 1..MaxCountdowns : CountdownTick(h)
    \/ RegisterOnUnload

SpecCountdown == Init /\ [][NextCountdown]_register

(***************************************************************************)
(* The AI chat dialog.  d is the dialog as above.                          *)
(***************************************************************************)
setInitialGreeting(d) ==
    [d EXCEPT !.messages = <<[id |-> 1, type |-> "ai"]>>, !.messageId = 2]

\* the attached lifetime: loadHistoryMessages runs to its first await, then the
\* greeting is set
attached(d) == setInitialGreeting([d EXCEPT !.loading = TRUE, !.attached = TRUE])

\* loadHistoryMessages from its awaits on: a history of n messages replaces the
\* list; none (no conversation, a failure, an empty history) sets the greeting
loadHistoryMessagesResume(d, n) ==
    LET d1 == [d EXCEPT !.loading = FALSE] IN
    IF n > 0
    THEN [d1 EXCEPT !.messages = [k \in 1..n |->
                                     [id |-> k,
                                      type |-> IF k % 2 = 1 THEN "user" ELSE "ai"]],
                    !.messageId = n + 1]
    ELSE setInitialGreeting(d1)

\* the media messages of a send: ids messageId + i + 1 for i = 0 .. media - 1
mediaMessages(messageId, media) ==
    [i \in 1..media |-> [id |-> messageId + (i - 1) + 1, type |-> "user"]]

\* onSendMessage up to its await; text: inputText.trim() is not empty; media:
\* the number of previewMedia
onSendMessage(d, text, media) ==
    IF ~text /\ media = 0 THEN d
    ELSE [d EXCEPT !.messages = (IF text
                                 THEN Append(@, [id |-> d.messageId, type |-> "user"])
                                 ELSE @) \o mediaMessages(d.messageId, media),
                   !.isLoading = TRUE,
                   !.messageId = d.messageId + media + 2,
                   !.asked = @ + 1]

\* onSendMessage from its await on: callAIService has resolved, with the answer
\* or with its error text, and the 'ai' message is appended
onSendMessageResume(d) ==
    [d EXCEPT !.messages = Append(@, [id |-> d.messageId, type |-> "ai"]),
              !.isLoading = FALSE,
              !.messageId = @ + 1,
              !.asked = @ - 1]

clearMessages(d) == setInitialGreeting(d)

Attached ==
    /\ ~chat.attached
    /\ chat' = attached(chat)
    /\ UNCHANGED besideChat

HistoryLoaded(n) ==
    /\ chat.loading
    /\ chat' = loadHistoryMessagesResume(chat, n)
    /\ UNCHANGED besideChat

OnSendMessage(text, media) ==
    /\ chat.attached
    /\ (text \/ media > 0) =>
          /\ chat.asked < MaxAsked
          /\ Len(chat.messages) + media + 1 <= MaxMessages
    /\ chat' = onSendMessage(chat, text, media)
    /\ UNCHANGED besideChat

AIAnswered ==
    /\ chat.asked > 0
    /\ Len(chat.messages) < MaxMessages
    /\ chat' = onSendMessageResume(chat)
    /\ UNCHANGED besideChat

ClearMessages ==
    /\ chat.attached
    /\ chat' = clearMessages(chat)
    /\ UNCHANGED besideChat

NextChat ==
    \/ Attached
    \/ \E n \in 0..MaxHistory : HistoryLoaded(n)
    \/ \E text \in BOOLEAN : \E media \in 0..MaxMedia : OnSendMessage(text, media)
    \/ AIAnswered
    \/ ClearMessages

SpecChat == Init /\ [][NextChat]_chat

(***************************************************************************)
(* The list of the wardrobe page.  w is the page as above.                 *)
(***************************************************************************)
Filters == {NoFilter, "tops"}

\* what /api/wardrobe/items answers for a page of a filter: the items of that
\* page (none beyond the last page) and has_next
PageOf(filters, pageNo) ==
    IF pageNo <= MaxPages THEN <<[filters |-> filters, page |-> pageNo]>> ELSE <<>>

HasNext(pageNo) == pageNo < MaxPages

\* loadWardrobeItems(isLoadMore) up to its await: currentPage and filters are
\* destructured and the request leaves; by names the caller, whose finally
\* differs
loadWardrobeItems(w, isLoadMore, by) ==
    [w EXCEPT !.loads = Append(@, [filters |-> w.filters,
                                   page |-> IF isLoadMore THEN w.currentPage + 1 ELSE 1,
                                   currentPage |-> w.currentPage,
                                   isLoadMore |-> isLoadMore,
                                   by |-> by])]

\* loadWardrobeItems from its await on, the request having succeeded
loadWardrobeItemsResume(w, req) ==
    [w EXCEPT !.wardrobeItems = IF req.isLoadMore
                                THEN @ \o PageOf(req.filters, req.page)
                                ELSE PageOf(req.filters, req.page),
              !.currentPage = IF req.isLoadMore THEN req.currentPage + 1 ELSE 1,
              !.hasMore = HasNext(req.page)]

\* the request loads[i] settles, and its caller runs to its end: loadMoreItems
\* resets isLoading in its finally, whatever the outcome
loadSettled(w, i, ok) ==
    LET req == w.loads[i]
        w1 == [w EXCEPT !.loads = Remove(@, i)]
        w2 == IF ok THEN loadWardrobeItemsResume(w1, req)
              ELSE [w1 EXCEPT !.failed = TRUE]
    IN IF req.by = "loadMoreItems" THEN [w2 EXCEPT !.isLoading = FALSE] ELSE w2

\* setData of refreshData and of applyFilters before the load
resetList(w) ==
    [w EXCEPT !.currentPage = 1, !.wardrobeItems = <<>>, !.hasMore = TRUE,
              !.applied = TRUE, !.failed = FALSE]

refreshData(w) == loadWardrobeItems(resetList(w), FALSE, "refreshData")

applyFilters(w) == loadWardrobeItems(resetList(w), FALSE, "applyFilters")

onFilterChange(w, value) == applyFilters([w EXCEPT !.filters = value])

loadMoreItems(w) ==
    IF w.isLoading \/ ~w.hasMore THEN w
    ELSE loadWardrobeItems([w EXCEPT !.isLoading = TRUE], TRUE, "loadMoreItems")

RoomToLoad == Len(wardrobe.loads) < MaxLoads

OnFilterChange(value) ==
    /\ RoomToLoad
    /\ wardrobe' = onFilterChange(wardrobe, value)
    /\ UNCHANGED besideWardrobe

RefreshData ==
    /\ RoomToLoad
    /\ wardrobe' = refreshData(wardrobe)
    /\ UNCHANGED besideWardrobe

LoadMoreItems ==
    /\ RoomToLoad
    /\ wardrobe' = loadMoreItems(wardrobe)
    /\ UNCHANGED besideWardrobe

LoadSettled(i, ok) ==
    /\ i \in DOMAIN wardrobe.loads
    /\ wardrobe' = loadSettled(wardrobe, i, ok)
    /\ UNCHANGED besideWardrobe

NextWardrobe ==
    \/ \E value \in Filters : OnFilterChange(value)
    \/ RefreshData
    \/ LoadMoreItems
    \/ \E i \in 1..MaxLoads : \E ok \in BOOLEAN : LoadSettled(i, ok)

SpecWardrobe == Init /\ [][NextWardrobe]_wardrobe


(***************************************************************************)
(* Vocabulary of the statements                                            *)
(***************************************************************************)
Budget(kind) == IF kind = "primary" THEN maxPollAttempts ELSE maxAvatarPollAttempts
Attempts(p, kind) == IF kind = "primary" THEN p.pollAttempts ELSE p.avatarPollAttempts
Handle(p, kind) == IF kind = "primary" THEN p.pollTimer ELSE p.avatarPollTimer

\* some status response of the given kind is processed in this step
Responds(kind) ==
    \E i \in DOMAIN inflight :
        /\ inflight[i].kind = kind
        /\ \E resp \in Responses(kind) : Respond(i, resp)

\* the session the request was sent for is still the one the page polls
Active(req) ==
    \E t \in timers :
        /\ t.id = Handle(page, req.kind)
        /\ t.kind = req.kind
        /\ t.task = req.task

\* the fields a user of the page observes
Observable(p) ==
    <<p.pollAttempts, p.avatarPollAttempts, p.analysisStatus, p.isAnalyzing,
      p.analysisResult, p.avatarStatus, p.avatarUrl>>

(***************************************************************************)
(* C1.  A status response (primary or avatar) that arrives after the user  *)
(* confirmed cancelAnalysis has no observable effect: the counters, the    *)
(* status text, isAnalyzing, the result and the avatar fields keep their   *)
(* values and no timer is started.  The status text "cancelled" is written *)
(* by cancelAnalysis alone, so a response processed while the page shows   *)
(* it arrives after the cancel.                                            *)
(***************************************************************************)
ResponseAfterCancelDiscarded ==
    [][(page.analysisStatus = "cancelled" /\ (Responds("primary") \/ Responds("avatar")))
          => (Observable(page') = Observable(page) /\ timers' \subseteq timers)]_vars

(***************************************************************************)
(* C2.  At most one live interval timer per kind, the timers whose handle  *)
(* the page no longer holds included.                                      *)
(***************************************************************************)
OneTimerPerKind ==
    \A k \in Kinds : Cardinality(TimersOf(timers, k)) <= 1

(***************************************************************************)
(* C3.  A primary status response of a session that has terminated or was  *)
(* superseded by a later startAnalysis is never applied: it changes        *)
(* neither the page nor the timers.                                        *)
(***************************************************************************)
StaleResponseNotApplied ==
    [][\A i \in DOMAIN inflight :
          (/\ inflight[i].kind = "primary"
           /\ ~Active(inflight[i])
           /\ \E resp \in Responses("primary") : Respond(i, resp))
          => (page' = page /\ timers' = timers)]_vars

(***************************************************************************)
(* C4.  The attempt counters never exceed their budgets.                   *)
(***************************************************************************)
AttemptsWithinBudget ==
    /\ page.pollAttempts <= maxPollAttempts
    /\ page.avatarPollAttempts <= maxAvatarPollAttempts

\* the counter is at its budget while a request of the session is still in flight
AttemptsAtBudgetInFlight ==
    /\ page.pollAttempts = maxPollAttempts
    /\ \E i \in DOMAIN inflight :
          /\ inflight[i].kind = "primary"
          /\ inflight[i].attempts = maxPollAttempts - 1
          /\ Active(inflight[i])

(***************************************************************************)
(* C5.  The attempt counter grows by exactly 1 with every tick, whatever   *)
(* the outcome of the tick's request: a successful response, success =     *)
(* false, a status code other than 200, a transport failure or a timeout.  *)
(* Each tick of a session sends one request, so the statement is about the *)
(* step that processes a request's outcome: in a session that runs alone   *)
(* it leaves the counter one higher.                                       *)
(***************************************************************************)
EveryTickCounted ==
    [][\A k \in Kinds :
          (sess[k].solo /\ Responds(k))
          => Attempts(page', k) = Attempts(page, k) + 1]_vars

(***************************************************************************)
(* C6.  Every started poll session that is not cancelled eventually stops  *)
(* its timer, also when the server never reports completed or error and    *)
(* when every status request fails: while ticks keep firing the budget     *)
(* runs out.  Stated for a session that runs alone: it stops, unless the   *)
(* user steps in.                                                          *)
(***************************************************************************)
SessionEventuallyStops ==
    \A k \in Kinds :
        (sess[k].solo /\ Handle(page, k) # NoTimer)
            ~> (Handle(page, k) = NoTimer \/ ~sess[k].solo)

(***************************************************************************)
(* C7.  With an endpoint that always answers running, a session is timed   *)
(* out after exactly maxAttempts ticks, the immediate check of start being *)
(* the first.  A tick is counted by the call it makes to the endpoint: the *)
(* session that runs alone, has had running for every answer and is timed  *)
(* out with no call left unanswered has made exactly Budget calls.         *)
(***************************************************************************)
TimedOutShown(k) ==
    IF k = "primary"
    THEN ~page.isAnalyzing /\ page.analysisStatus = "timeout"
    ELSE page.avatarStatus = "timeout"

AlwaysRunning(k) == sess[k].solo /\ sess[k].script = "running"

TimedOutAfterMaxCalls ==
    \A k \in Kinds :
        (/\ AlwaysRunning(k)
         /\ TimedOutShown(k)
         /\ Handle(page, k) = NoTimer
         /\ OfKind(inflight, k) = {})
        => sess[k].calls = Budget(k)

(***************************************************************************)
(* C8.  With an endpoint that answers running on calls 1..N-1 and          *)
(* completed on call N (N <= maxPollAttempts), responses processed in      *)
(* order, the primary session ends as Completed after N ticks: the timer   *)
(* is cleared, isAnalyzing is false, analysisResult is the payload of the  *)
(* response and pollAttempts is N.                                         *)
(***************************************************************************)
CompletedOnCallN ==
    (/\ sess.primary.solo
     /\ sess.primary.script = "completed"
     /\ sess.primary.calls <= maxPollAttempts)
    => /\ page.pollTimer = NoTimer
       /\ TimersOf(timers, "primary") = {}
       /\ ~page.isAnalyzing
       /\ page.analysisResult = sess.primary.payload
       /\ page.pollAttempts = sess.primary.calls

(***************************************************************************)
(* C9.  With an endpoint that answers error with error_message X on call   *)
(* 1, the primary session ends as Failed after 1 tick: the timer is        *)
(* cleared, isAnalyzing is false, analysisResult stays null, no avatar     *)
(* session is started and the status text carries X.                       *)
(***************************************************************************)
FailedOnFirstCall ==
    (sess.primary.solo /\ sess.primary.script = "error" /\ sess.primary.calls = 1) =>
        /\ page.pollTimer = NoTimer
        /\ TimersOf(timers, "primary") = {}
        /\ ~page.isAnalyzing
        /\ page.analysisResult = "null"
        /\ page.pollAttempts = 1
        /\ page.avatarPollTimer = NoTimer
        /\ TimersOf(timers, "avatar") = {}
        /\ OfKind(inflight, "avatar") = {}
        /\ sess.primary.payload \in ErrorMessages
              => page.analysisStatus = "failed:" \o sess.primary.payload

FailedWithX ==
    /\ sess.primary.solo
    /\ sess.primary.script = "error"
    /\ sess.primary.calls = 1
    /\ sess.primary.payload = "X"
    /\ page.analysisStatus = "failed:X"

(***************************************************************************)
(* C10.  Once onUnload has run both sessions are destroyed for good: no    *)
(* timer is live in any later state and no later event (a tick, a status   *)
(* response, a submission response) changes the page.                      *)
(***************************************************************************)
TornDownForGood ==
    [][unloaded => (page' = page /\ timers' = {})]_vars

(***************************************************************************)
(* What a handler does within its step, in order.                          *)
(***************************************************************************)
\* the writes and clears of the continuation that processes resp for inflight[i]
ResumeLog(i, resp) ==
    LET req == inflight[i]
        c0 == [Cur EXCEPT !.inflight = Remove(inflight, i)]
    IN (IF req.kind = "primary"
        THEN pollTaskStatusResume(c0, req, resp)
        ELSE pollAvatarTaskStatusResume(c0, req, resp)).log

\* the writes and clears of the callback of timer t
TickLog(t) ==
    (IF t.kind = "primary"
     THEN pollTaskStatus(Cur, t.task)
     ELSE pollAvatarTaskStatus(Cur, t.task)).log

\* every write of page data comes after a clearInterval
ClearedFirst(log) ==
    \A n \in DOMAIN log :
        log[n].op = "setData" => \E m \in 1..(n - 1) : log[m].op = "clearInterval"

(***************************************************************************)
(* C11.  When a session reaches a terminal outcome (a completed or error   *)
(* response, or the budget running out), its timer is cleared before any   *)
(* write to page data made while handling that tick: in the step of the    *)
(* session the page polls, no setData precedes the clearInterval.          *)
(***************************************************************************)
TimerClearedFirst ==
    [][/\ \A i \in DOMAIN inflight : \A resp \in Responses(inflight[i].kind) :
             (Terminal(resp) /\ Active(inflight[i]) /\ Respond(i, resp))
             => ClearedFirst(ResumeLog(i, resp))
       /\ \A t \in timers :
             (/\ t.id = Handle(page, t.kind)
              /\ BudgetExhausted(Attempts(page, t.kind), Budget(t.kind))
              /\ Tick(t))
             => ClearedFirst(TickLog(t))]_vars

(***************************************************************************)
(* C12.  Completion of the primary session starts an avatar poll session   *)
(* if and only if the payload signals an avatar that is generating, with   *)
(* its task id.  The avatar session then starts with avatarPollAttempts =  *)
(* 0, whatever pollAttempts reached: a new avatar timer whose handle the   *)
(* page holds, and the immediate avatar check in flight with the counter   *)
(* captured at 0 (below the avatar budget).  Any other completion payload  *)
(* starts no avatar timer, sends no avatar request and leaves              *)
(* avatarTaskId and avatarPollAttempts alone.                              *)
(***************************************************************************)
AvatarRequests(q) == {j \in DOMAIN q : q[j].kind = "avatar"}

\* the world after the continuation of pollTaskStatus has processed resp for inflight[i]
Resumed(i, resp) ==
    pollTaskStatusResume([Cur EXCEPT !.inflight = Remove(inflight, i)], inflight[i], resp)

AvatarStartedIffGenerating ==
    \A i \in DOMAIN inflight : \A resp \in AllResponses("primary") :
        (inflight[i].kind = "primary" /\ resp.status = "completed") =>
            LET c == Resumed(i, resp)
                before == Remove(inflight, i)
            IN IF resp.result = "generating"
               THEN /\ \E t \in c.timers \ timers :
                          /\ t.kind = "avatar"
                          /\ t.id = c.page.avatarPollTimer
                          /\ t.task = c.page.avatarTaskId
                    /\ c.page.avatarPollAttempts = 0
                    /\ 0 < maxAvatarPollAttempts
                    /\ c.page.avatarStatus = "generating"
                    /\ c.inflight = Append(before, [kind |-> "avatar",
                                                    task |-> c.page.avatarTaskId,
                                                    attempts |-> 0])
               ELSE /\ TimersOf(c.timers, "avatar") = TimersOf(timers, "avatar")
                    /\ c.inflight = before
                    /\ c.page.avatarTaskId = page.avatarTaskId
                    /\ c.page.avatarPollAttempts = page.avatarPollAttempts
                    /\ c.page.avatarPollTimer = page.avatarPollTimer

\* the avatar session has just started, the primary one having used its whole budget
AvatarStartedAfterFullBudget ==
    /\ page.pollAttempts = maxPollAttempts
    /\ page.avatarPollAttempts = 0
    /\ page.avatarStatus = "generating"
    /\ page.analysisResult = "generating"
    /\ \E t \in timers : t.kind = "avatar" /\ t.id = page.avatarPollTimer
    /\ \E j \in DOMAIN inflight : inflight[j].kind = "avatar" /\ inflight[j].attempts = 0

(***************************************************************************)
(* C13.  After a primary completion has started the avatar session, a      *)
(* cancel leaves the avatar session alone: the avatar timer stays live and *)
(* avatarTaskId, avatarPollAttempts and avatarStatus keep their values.    *)
(* The page has one cancel, the confirmed cancelAnalysis.                  *)
(***************************************************************************)
\* the avatar session a primary completion started is still polling
AvatarPolling ==
    /\ page.avatarStatus = "generating"
    /\ \E t \in timers : t.kind = "avatar" /\ t.id = page.avatarPollTimer

AvatarFields(p) == <<p.avatarTaskId, p.avatarPollAttempts, p.avatarStatus>>

CancelLeavesAvatar ==
    [][(AvatarPolling /\ CancelAnalysis)
          => /\ \E t \in timers' : t.kind = "avatar" /\ t.id = page'.avatarPollTimer
             /\ page'.avatarPollTimer = page.avatarPollTimer
             /\ AvatarFields(page') = AvatarFields(page)]_vars

(***************************************************************************)
(* C13 as amended.  cancelAnalysis stops every poll of the page: with the  *)
(* avatar session polling, the confirmed cancel clears the avatar timer    *)
(* the page holds and resets avatarTaskId to null, avatarPollAttempts to 0 *)
(* and avatarStatus to null.  Stopping the primary poll by itself          *)
(* (stopTaskPolling) leaves the avatar timers and the page data alone.     *)
(***************************************************************************)
CancelStopsAvatar ==
    [][(AvatarPolling /\ CancelAnalysis)
          => /\ page'.avatarPollTimer = NoTimer
             /\ \A t \in timers' : t.id # page.avatarPollTimer
             /\ page'.avatarTaskId = NoTask
             /\ page'.avatarPollAttempts = 0
             /\ page'.avatarStatus = "null"
             /\ LET c == stopTaskPolling(Cur)
                IN /\ TimersOf(c.timers, "avatar") = TimersOf(timers, "avatar")
                   /\ [c.page EXCEPT !.pollTimer = NoTimer]
                         = [page EXCEPT !.pollTimer = NoTimer]
                   /\ c.inflight = inflight]_vars

\* cancelled while the avatar session the completion started was still polling
CancelledWhileAvatarPolling ==
    /\ page.analysisStatus = "cancelled"
    /\ page.analysisResult = "generating"
    /\ page.avatarStatus = "null"
    /\ page.avatarPollTimer = NoTimer
    /\ TimersOf(timers, "avatar") = {}
    /\ \E j \in DOMAIN inflight : inflight[j].kind = "avatar"

(***************************************************************************)
(* C14.  A failed status request (transport failure, timeout, a status     *)
(* code other than 200, or a body with success = false) does not end the   *)
(* session: after it is processed the timer of the session is still live   *)
(* and held, isAnalyzing, analysisResult, analysisStatus and every other   *)
(* field but the attempt counter are unchanged, and the next tick sends a  *)
(* new request.  Stated of the session the page polls, for each request of *)
(* it in flight and each failure it may settle with.                       *)
(***************************************************************************)
Failures == {Transport, NotSuccess}

\* the world after the continuation has processed resp for inflight[i]
ResumedAny(i, resp) ==
    LET c0 == [Cur EXCEPT !.inflight = Remove(inflight, i)]
    IN IF inflight[i].kind = "primary"
       THEN pollTaskStatusResume(c0, inflight[i], resp)
       ELSE pollAvatarTaskStatusResume(c0, inflight[i], resp)

\* the callback of the timer the page holds for the kind, run in world c
NextTick(c, kind) ==
    LET t == CHOOSE t \in c.timers : t.id = Handle(c.page, kind)
    IN IF kind = "primary" THEN pollTaskStatus(c, t.task)
       ELSE pollAvatarTaskStatus(c, t.task)

WithoutCounter(p, kind) ==
    IF kind = "primary" THEN [p EXCEPT !.pollAttempts = 0]
    ELSE [p EXCEPT !.avatarPollAttempts = 0]

\* the failure leaves the session as it was, its counter apart
SessionSurvives(i, c) ==
    LET k == inflight[i].kind IN
    /\ c.timers = timers
    /\ Handle(c.page, k) = Handle(page, k)
    /\ WithoutCounter(c.page, k) = WithoutCounter(page, k)
    /\ c.inflight = Remove(inflight, i)

FailedTickKeepsPolling ==
    \A i \in DOMAIN inflight : \A resp \in Failures :
        Active(inflight[i]) =>
            LET c == ResumedAny(i, resp) IN
            /\ SessionSurvives(i, c)
            /\ Len(NextTick(c, inflight[i].kind).inflight) = Len(c.inflight) + 1

(***************************************************************************)
(* C14 as amended.  The failed request does not end the session, and the   *)
(* next tick sends a new request unless the attempt counter has reached    *)
(* the budget (a body with success = false is counted): the next tick then *)
(* ends the session as TimedOut, sending nothing.                          *)
(***************************************************************************)
FailedTickKeepsPollingWithinBudget ==
    \A i \in DOMAIN inflight : \A resp \in Failures :
        Active(inflight[i]) =>
            LET k == inflight[i].kind
                c == ResumedAny(i, resp)
                n == NextTick(c, k)
            IN /\ SessionSurvives(i, c)
               /\ IF Attempts(c.page, k) < Budget(k)
                  THEN /\ Len(n.inflight) = Len(c.inflight) + 1
                       /\ n.timers = c.timers
                       /\ n.page = c.page
                  ELSE /\ n.inflight = c.inflight
                       /\ Handle(n.page, k) = NoTimer
                       /\ n.timers = {t \in c.timers : t.id # Handle(c.page, k)}
                       /\ IF k = "primary"
                          THEN ~n.page.isAnalyzing /\ n.page.analysisStatus = "timeout"
                          ELSE n.page.avatarStatus = "timeout"

\* a session still polling after a failed request: the answer success = false to
\* its last budgeted request has been counted
PollingAfterFailedRequest ==
    /\ sess.primary.solo
    /\ sess.primary.script = "other"
    /\ page.isAnalyzing
    /\ page.analysisStatus = "started"
    /\ page.pollAttempts = maxPollAttempts
    /\ \E t \in timers : t.kind = "primary" /\ t.id = page.pollTimer
    /\ OfKind(inflight, "primary") = {}

(***************************************************************************)
(* C15.  A successful primary status response with a non-terminal status   *)
(* (pending or running) writes the progress into analysisStatus, when the  *)
(* response carries one, and does nothing else: the timers, isAnalyzing,   *)
(* currentTaskId, analysisResult and every avatar field are unchanged; the *)
(* attempt counter is the only other field written.                        *)
(***************************************************************************)
NonTerminalResponses ==
    {Ok(st, pr, "null", "") : st \in {"pending", "running"}, pr \in Progress \cup {""}}

ProgressOnly ==
    \A i \in DOMAIN inflight : \A resp \in NonTerminalResponses :
        inflight[i].kind = "primary" =>
            LET c == Resumed(i, resp) IN
            /\ c.timers = timers
            /\ c.inflight = Remove(inflight, i)
            /\ c.page = [page EXCEPT
                            !.pollAttempts = inflight[i].attempts + 1,
                            !.analysisStatus = IF resp.progress # ""
                                               THEN resp.progress ELSE @]

\* the progress of a running task is on the page, the session polling on
ProgressShown ==
    /\ page.analysisStatus = "progress"
    /\ page.isAnalyzing
    /\ page.analysisResult = "null"
    /\ page.pollAttempts >= 1
    /\ \E t \in timers : t.kind = "primary" /\ t.id = page.pollTimer

(***************************************************************************)
(* C16.  A session sends at most maxAttempts status requests, the          *)
(* immediate check of start included, whatever the responses are and       *)
(* however slowly they arrive.  The requests a session has sent are those  *)
(* answered and those in flight; stated for a session that runs alone and  *)
(* has had running for every answer, the answers taken in order.           *)
(***************************************************************************)
RequestsWithinBudget ==
    \A k \in Kinds :
        (sess[k].solo /\ sess[k].script = "running")
        => sess[k].calls + Cardinality(OfKind(inflight, k)) <= Budget(k)

(***************************************************************************)
(* C17.  Cancel is idempotent: stopTaskPolling, stopAvatarTaskPolling,     *)
(* clearAllTimers and the confirmed cancelAnalysis applied twice leave the *)
(* state they leave applied once, and applied when no session is active    *)
(* they do not change the page.                                            *)
(***************************************************************************)
\* what an operation leaves: the page and the live timers
Left(c) == <<c.page, c.timers>>

\* nothing is polling and nothing is being submitted
NoSession ==
    /\ timers = {}
    /\ page.pollTimer = NoTimer
    /\ page.avatarPollTimer = NoTimer
    /\ submits = 0
    /\ ~page.isAnalyzing

CancelIdempotent ==
    /\ Left(stopTaskPolling(stopTaskPolling(Cur))) = Left(stopTaskPolling(Cur))
    /\ Left(stopAvatarTaskPolling(stopAvatarTaskPolling(Cur)))
          = Left(stopAvatarTaskPolling(Cur))
    /\ Left(clearAllTimers(clearAllTimers(Cur))) = Left(clearAllTimers(Cur))
    /\ Left(cancelAnalysis(cancelAnalysis(Cur))) = Left(cancelAnalysis(Cur))
    /\ NoSession =>
          /\ Left(stopTaskPolling(Cur)) = Left(Cur)
          /\ Left(stopAvatarTaskPolling(Cur)) = Left(Cur)
          /\ Left(clearAllTimers(Cur)) = Left(Cur)
          /\ Left(cancelAnalysis(Cur)) = Left(Cur)

(***************************************************************************)
(* C18.  Every way a primary session can end is shown with an explicit     *)
(* outcome: once the continuation of a poll has processed a completed or   *)
(* error response for the session the page polls, or a tick has found the  *)
(* budget used up, the timer is stopped and the page shows Completed (the  *)
(* result with a completion status), Failed (the failure status with the   *)
(* message) or TimedOut; a completed response whose result is missing or   *)
(* whose avatar_info.status is not recognised is included.                 *)
(***************************************************************************)
CompletionStatuses ==
    {"done", "done_avatar_generating", "done_with_avatar", "done_no_user_images"}

ExplicitOutcome(p) ==
    /\ ~p.isAnalyzing
    /\ \/ p.analysisResult # "null" /\ p.analysisStatus \in CompletionStatuses
       \/ p.analysisStatus \in {FailedStatus(m) : m \in ErrorMessages \cup {""}}
       \/ p.analysisStatus = "timeout"
       \/ p.analysisStatus = "cancelled"

EveryEndExplicit ==
    /\ \A i \in DOMAIN inflight : \A resp \in AllResponses("primary") :
          (/\ inflight[i].kind = "primary"
           /\ Active(inflight[i])
           /\ Terminal(resp))
          => LET c == Resumed(i, resp) IN
             /\ c.page.pollTimer = NoTimer
             /\ ExplicitOutcome(c.page)
    /\ (/\ page.pollTimer # NoTimer
        /\ \E t \in timers : t.id = page.pollTimer
        /\ BudgetExhausted(page.pollAttempts, maxPollAttempts))
       => LET c == NextTick(Cur, "primary") IN
          /\ c.page.pollTimer = NoTimer
          /\ ExplicitOutcome(c.page)

(***************************************************************************)
(* C19.  After a session has reached a terminal state (Completed, Failed,  *)
(* TimedOut or Cancelled) no further tick of its kind occurs and nothing   *)
(* is retried automatically: no status request of the kind is sent again   *)
(* until the user invokes startAnalysis.  A step taken while the page      *)
(* shows the kind ended is no tick of the kind and sends no request of it. *)
(***************************************************************************)
\* the page shows the session of the kind ended, its handle dropped
Ended(kind) ==
    IF kind = "primary"
    THEN /\ page.pollTimer = NoTimer
         /\ ~page.isAnalyzing
         /\ \/ page.analysisResult # "null" /\ page.analysisStatus \in CompletionStatuses
            \/ page.analysisStatus \in {FailedStatus(m) : m \in ErrorMessages \cup {""}}
            \/ page.analysisStatus \in {"timeout", "cancelled"}
    ELSE /\ page.avatarPollTimer = NoTimer
         /\ \/ page.avatarStatus \in {"completed", "fallback", "error", "timeout"}
            \/ page.analysisStatus = "cancelled"

NoPollAfterEnd ==
    [][\A k \in Kinds :
          Ended(k) =>
             /\ ~ \E t \in timers : t.kind = k /\ Tick(t)
             /\ Cardinality(OfKind(inflight', k)) <= Cardinality(OfKind(inflight, k))]_vars

(***************************************************************************)
(* C20.  The primary and the avatar session share no mutable state but the *)
(* trigger primary -> avatar: an avatar tick or avatar outcome never       *)
(* changes pollAttempts, currentTaskId, isAnalyzing, analysisResult, the   *)
(* primary timer or the status text of the primary (analysisStatus), and a *)
(* primary tick that does not complete never changes avatarTaskId,         *)
(* avatarPollAttempts, avatarStatus, avatarUrl or the avatar timer.        *)
(* Stated of every handler step the state allows: a response to a request *)
(* in flight, the callback of a live timer.                                *)
(***************************************************************************)
PrimaryFields(p) ==
    <<p.pollAttempts, p.currentTaskId, p.isAnalyzing, p.analysisResult, p.pollTimer>>

AvatarSide(p) ==
    <<p.avatarTaskId, p.avatarPollAttempts, p.avatarStatus, p.avatarUrl, p.avatarPollTimer>>

\* every answer a status request of the kind may settle with
Settlements(kind) == AllResponses(kind) \cup Failures

\* the world after the callback of timer t
Ticked(t) ==
    IF t.kind = "primary" THEN pollTaskStatus(Cur, t.task)
    ELSE pollAvatarTaskStatus(Cur, t.task)

\* an avatar step leaves the primary side alone
AvatarLeavesPrimary(c) ==
    /\ PrimaryFields(c.page) = PrimaryFields(page)
    /\ TimersOf(c.timers, "primary") = TimersOf(timers, "primary")
    /\ Cardinality(OfKind(c.inflight, "primary")) = Cardinality(OfKind(inflight, "primary"))

\* a primary step that does not complete leaves the avatar side alone
PrimaryLeavesAvatar(c) ==
    /\ AvatarSide(c.page) = AvatarSide(page)
    /\ TimersOf(c.timers, "avatar") = TimersOf(timers, "avatar")
    /\ Cardinality(OfKind(c.inflight, "avatar")) = Cardinality(OfKind(inflight, "avatar"))

PrimaryStepsLeaveAvatar ==
    /\ \A i \in DOMAIN inflight : \A resp \in Settlements("primary") :
          (inflight[i].kind = "primary" /\ ~(resp.success /\ resp.status = "completed"))
          => PrimaryLeavesAvatar(ResumedAny(i, resp))
    /\ \A t \in timers : t.kind = "primary" => PrimaryLeavesAvatar(Ticked(t))

NoSharedState ==
    /\ \A i \in DOMAIN inflight : \A resp \in Settlements("avatar") :
          inflight[i].kind = "avatar" =>
             LET c == ResumedAny(i, resp) IN
             /\ AvatarLeavesPrimary(c)
             /\ c.page.analysisStatus = page.analysisStatus
    /\ \A t \in timers :
          t.kind = "avatar" =>
             /\ AvatarLeavesPrimary(Ticked(t))
             /\ Ticked(t).page.analysisStatus = page.analysisStatus
    /\ PrimaryStepsLeaveAvatar

(***************************************************************************)
(* C20 as amended.  The two sessions share the status text: an avatar      *)
(* outcome (completed, error, the avatar budget used up) writes its own    *)
(* text into analysisStatus, and any other avatar step leaves it alone.    *)
(* Apart from analysisStatus an avatar step changes nothing of the primary *)
(* side, and a primary step that does not complete changes nothing of the  *)
(* avatar side.                                                            *)
(***************************************************************************)
AvatarStatusTexts ==
    {"avatar_done", "avatar_fallback", "avatar_error", "avatar_error_fallback"}

SharedStatusTextOnly ==
    /\ \A i \in DOMAIN inflight : \A resp \in Settlements("avatar") :
          inflight[i].kind = "avatar" =>
             LET c == ResumedAny(i, resp) IN
             /\ AvatarLeavesPrimary(c)
             /\ IF Terminal(resp)
                THEN c.page.analysisStatus \in AvatarStatusTexts
                ELSE c.page.analysisStatus = page.analysisStatus
    /\ \A t \in timers :
          t.kind = "avatar" =>
             /\ AvatarLeavesPrimary(Ticked(t))
             /\ Ticked(t).page.analysisStatus =
                   IF BudgetExhausted(page.avatarPollAttempts, maxAvatarPollAttempts)
                   THEN "avatar_timeout" ELSE page.analysisStatus
    /\ PrimaryStepsLeaveAvatar

\* the avatar outcome is on the page, in the status text too, the primary side kept
AvatarOutcomeInStatusText ==
    /\ page.analysisStatus = "avatar_done"
    /\ page.avatarStatus = "completed"
    /\ page.avatarUrl = "avatar_url"
    /\ page.analysisResult = "generating"
    /\ ~page.isAnalyzing
    /\ page.pollAttempts >= 1

(***************************************************************************)
(* C21.  An avatar session exists only as a consequence of a successful    *)
(* primary completion: whenever the avatar timer the page holds is live,   *)
(* analysisResult is not null, avatarTaskId is not null and avatarStatus   *)
(* is generating.                                                          *)
(***************************************************************************)
AvatarTimerActive ==
    \E t \in timers : t.kind = "avatar" /\ t.id = page.avatarPollTimer

AvatarOnlyAfterCompletion ==
    AvatarTimerActive =>
        /\ page.analysisResult # "null"
        /\ page.avatarTaskId # NoTask
        /\ page.avatarStatus = "generating"

(***************************************************************************)
(* C22.  Within one session the attempt counter never goes down: a         *)
(* response to an earlier tick that is processed after the response to a   *)
(* later tick does not lower it.  Stated of a session that runs alone, for *)
(* each of its requests in flight and each answer it may settle with.      *)
(***************************************************************************)
CounterNeverLowered ==
    \A i \in DOMAIN inflight : \A resp \in Responses(inflight[i].kind) :
        (sess[inflight[i].kind].solo /\ Active(inflight[i]))
        => Attempts(ResumedAny(i, resp).page, inflight[i].kind)
              >= Attempts(page, inflight[i].kind)

(***************************************************************************)
(* C23.  On a confirmed cancelAnalysis the session ends as Cancelled and   *)
(* no message is shown: the timers the page holds are stopped, isAnalyzing *)
(* is false, currentTaskId and avatarTaskId are null, both counters are 0, *)
(* and no toast is shown.  Stated of the cancel of a running analysis.     *)
(***************************************************************************)
Toasts(log) == {n \in DOMAIN log : log[n].op = "showToast"}

\* an analysis is running: the page polls its primary task
AnalysisRunning ==
    /\ page.isAnalyzing
    /\ \E t \in timers : t.kind = "primary" /\ t.id = page.pollTimer

\* what the cancel leaves of the sessions
CancelledState(c) ==
    /\ c.page.pollTimer = NoTimer
    /\ c.page.avatarPollTimer = NoTimer
    /\ c.timers = {t \in timers : t.id \notin {page.pollTimer, page.avatarPollTimer}}
    /\ ~c.page.isAnalyzing
    /\ c.page.currentTaskId = NoTask
    /\ c.page.avatarTaskId = NoTask
    /\ c.page.pollAttempts = 0
    /\ c.page.avatarPollAttempts = 0

CancelSilent ==
    AnalysisRunning =>
        LET c == cancelAnalysis(Cur) IN
        /\ CancelledState(c)
        /\ Toasts(c.log) = {}

(***************************************************************************)
(* C23 as amended.  The confirmed cancelAnalysis ends the session as       *)
(* Cancelled and tells the user: the state is as above, analysisStatus     *)
(* shows the cancelled text and one toast, the cancelled one, is shown.    *)
(***************************************************************************)
CancelAnnounced ==
    AnalysisRunning =>
        LET c == cancelAnalysis(Cur) IN
        /\ CancelledState(c)
        /\ c.page.analysisStatus = "cancelled"
        /\ Cardinality(Toasts(c.log)) = 1
        /\ \A n \in Toasts(c.log) : c.log[n].fields = {"cancelled"}

\* cancelled in the middle of a poll: a status request is still unanswered
CancelledMidPoll ==
    /\ page.analysisStatus = "cancelled"
    /\ ~page.isAnalyzing
    /\ page.currentTaskId = NoTask
    /\ page.pollAttempts = 0
    /\ timers = {}
    /\ \E j \in DOMAIN inflight : inflight[j].kind = "primary"

(***************************************************************************)
(* C24.  The terminal outcome of a primary session is dispatched at most   *)
(* once: for one task id handleTaskCompleted runs at most once, also when  *)
(* two status requests of the session are in flight and both answer        *)
(* completed, so no task has more than one avatar timer started for it.    *)
(***************************************************************************)
AvatarTimersFor(task) == {t \in timers : t.kind = "avatar" /\ t.task = task}

CompletionDispatchedOnce ==
    \A task \in Tasks : Cardinality(AvatarTimersFor(task)) <= 1

(***************************************************************************)
(* C25.  In every reachable state an active primary poll timer implies     *)
(* isAnalyzing = true and currentTaskId non-null; a cancelAnalysis or a    *)
(* retryAnalysis during the pending submission keeps polling from starting *)
(* when the submission response arrives.                                   *)
(***************************************************************************)
PrimaryTimerActive == \E t \in timers : t.kind = "primary" /\ t.id = page.pollTimer

PollingOnlyWhileAnalyzing ==
    PrimaryTimerActive => (page.isAnalyzing /\ page.currentTaskId # NoTask)

(***************************************************************************)
(* C26.  startAnalysis creates a session only when the submission is       *)
(* accepted.  A failed validateInput leaves the page data, the timers and  *)
(* the requests as they are.  A submission that is rejected or answers     *)
(* success = false leaves isAnalyzing false, currentTaskId null and no     *)
(* primary timer, and sends no status request.                             *)
(***************************************************************************)
Rejections == {r \in SubmitResponses : ~Accepted(r)}

InvalidInputIgnored ==
    LET c == startAnalysis(Cur, FALSE) IN
    c.page = page /\ c.timers = timers /\ c.inflight = inflight

RejectionLeavesIdle ==
    submits > 0 =>
        \A r \in Rejections :
            LET c == startAnalysisResume(Cur, r) IN
            /\ ~c.page.isAnalyzing
            /\ c.page.currentTaskId = NoTask
            /\ TimersOf(c.timers, "primary") = {}
            /\ c.inflight = inflight

SessionOnlyWhenAccepted == InvalidInputIgnored /\ RejectionLeavesIdle

(***************************************************************************)
(* C27.  A non-null avatarUrl implies avatarStatus is completed or         *)
(* fallback: neither startAnalysis nor cancelAnalysis leaves the avatar    *)
(* of an earlier run next to another status.                               *)
(***************************************************************************)
AvatarUrlHasItsStatus ==
    page.avatarUrl # "null" => page.avatarStatus \in {"completed", "fallback"}

(***************************************************************************)
(* C28.  When an avatar session terminates, avatarStatus follows this      *)
(* rule: completed with avatarUrl = avatar_url when the completed result   *)
(* carries avatar_url; otherwise fallback with the fallback avatar when    *)
(* the result, of a completed or an error answer, carries one; otherwise   *)
(* error; and timeout when the budget is exhausted.  In each case the      *)
(* avatar timer the page holds is cleared and isAnalyzing and              *)
(* analysisResult are left as they are.  The results range over every      *)
(* combination of the two urls.                                            *)
(***************************************************************************)
AnyAvatarResult == AvatarResults \cup {"both_urls"}

AvatarTerminations ==
    {Ok(st, "", res, msg) :
        st \in {"completed", "error"}, res \in AnyAvatarResult, msg \in ErrorMessages \cup {""}}

\* the avatar session is over in world c: its timer cleared, the analysis untouched
AvatarOver(c) ==
    /\ c.page.avatarPollTimer = NoTimer
    /\ c.timers = {t \in timers : t.id # page.avatarPollTimer}
    /\ sess.avatar.solo => TimersOf(c.timers, "avatar") = {}
    /\ c.page.isAnalyzing = page.isAnalyzing
    /\ c.page.analysisResult = page.analysisResult

AvatarOutcome(p, resp) ==
    IF resp.status = "completed" /\ HasAvatarUrl(resp.result)
    THEN p.avatarStatus = "completed" /\ p.avatarUrl = "avatar_url"
    ELSE IF HasFallbackUrl(resp.result)
    THEN p.avatarStatus = "fallback" /\ p.avatarUrl = "fallback_avatar_url"
    ELSE p.avatarStatus = "error" /\ p.avatarUrl = page.avatarUrl

AvatarTerminationRule ==
    /\ \A i \in OfKind(inflight, "avatar") : \A resp \in AvatarTerminations :
          LET c == ResumedAny(i, resp) IN
          AvatarOutcome(c.page, resp) /\ AvatarOver(c)
    /\ \A t \in TimersOf(timers, "avatar") :
          BudgetExhausted(page.avatarPollAttempts, maxAvatarPollAttempts) =>
              LET c == Ticked(t) IN
              /\ c.page.avatarStatus = "timeout"
              /\ c.page.avatarUrl = page.avatarUrl
              /\ c.inflight = inflight
              /\ AvatarOver(c)

\* an avatar session that ran alone has ended in error, after its analysis completed
AvatarEndedInError ==
    /\ sess.avatar.solo
    /\ sess.avatar.script = "error"
    /\ page.avatarStatus = "error"
    /\ page.avatarPollTimer = NoTimer
    /\ TimersOf(timers, "avatar") = {}
    /\ page.analysisResult = "generating"

(***************************************************************************)
(* C29.  The try-on poll loop of the index page ends within its budget:    *)
(* every request being answered, the interval is cleared and isProcessing  *)
(* is false after at most maxPolls ticks, whatever the mix of answers and  *)
(* failures.  Stated of the ticks: no interval fires more than maxPolls    *)
(* times.                                                                  *)
(***************************************************************************)
TryonTicksWithinBudget == \A p \in index.polls : p.ticks <= maxPolls

(***************************************************************************)
(* C30.  After resetTryon or onUnload of the index page, and until the     *)
(* next startVirtualTryon, no try-on interval is live; after resetTryon    *)
(* tryonResult stays null and isProcessing stays false, whatever answer    *)
(* of the earlier try-on is still awaited.                                 *)
(***************************************************************************)
LivePolls == {p \in index.polls : p.live}

TryonQuietAfterReset ==
    /\ index.quiet # "no" => LivePolls = {}
    /\ index.quiet = "reset" => (index.tryonResult = "null" /\ ~index.isProcessing)

(***************************************************************************)
(* C31.  In the global state of the app isLoggedIn = true implies that     *)
(* authToken is non-null, under every interleaving of autoLogin, login,    *)
(* logout and the 401 handling of the request wrapper.                     *)
(***************************************************************************)
LoggedInHasToken == app.isLoggedIn => app.authToken # "null"

(***************************************************************************)
(* C32.  The countdown of the verification code stays within               *)
(* 0..CountdownStart and its timer stops when it reaches 0: after any      *)
(* sequence of sendVerifyCode and ticks countdown is never negative and no *)
(* countdown interval is live once countdown is 0.                         *)
(***************************************************************************)
CountdownWithinRange ==
    /\ register.countdown \in 0..CountdownStart
    /\ register.countdown = 0 => register.timers = {}

(***************************************************************************)
(* C33.  handleRegister sends the register request only for a form that is *)
(* valid for the values of its fields at that moment: the phone matches    *)
(* the mobile pattern, the code has 6 characters (and is the test code in  *)
(* debug mode), the password has at least 6 characters and equals the      *)
(* non-empty confirmation, and the terms are agreed; currentStep stays in  *)
(* 1..3.                                                                   *)
(***************************************************************************)
FormValid(r) ==
    /\ isValidPhone(r.phone)
    /\ Len(r.verifyCode) = 6
    /\ debug => r.verifyCode = TestCode
    /\ Len(r.password) >= 6
    /\ r.password = r.confirmPassword
    /\ r.confirmPassword # <<>>
    /\ r.agreeToTerms

RegisterOnlyValidForm ==
    /\ handleRegister(register).calls > register.calls => FormValid(register)
    /\ register.currentStep \in 1..3

\* the register request of a valid form is awaited, from the third step
RegisterRequestSent ==
    /\ register.calls = 1
    /\ register.isLoading
    /\ register.currentStep = 3
    /\ FormValid(register)

(***************************************************************************)
(* C34.  In the chat dialog every accepted send gets one reply and the     *)
(* loading flag tracks the outstanding requests: the ids of the messages   *)
(* in the list are pairwise distinct, and isLoading is true whenever an    *)
(* answer is still awaited, also when a second message is sent before the  *)
(* first is answered.                                                      *)
(***************************************************************************)
DistinctMessageIds ==
    \A m, n \in DOMAIN chat.messages :
        m # n => chat.messages[m].id # chat.messages[n].id

LoadingWhileAsked == chat.asked > 0 => chat.isLoading

ChatRepliesTracked == DistinctMessageIds /\ LoadingWhileAsked

(***************************************************************************)
(* C35.  The list of the wardrobe page corresponds to the filter applied   *)
(* last: once every request has completed (none having failed since the    *)
(* filter was applied), wardrobeItems is the concatenation of the pages    *)
(* 1..currentPage of the current filter, with no page of another filter or *)
(* of an earlier request in it.                                            *)
(***************************************************************************)
PagesShown(w) ==
    [pageNo \in 1..w.currentPage |-> [filters |-> w.filters, page |-> pageNo]]

ListShowsLatestFilter ==
    (wardrobe.applied /\ wardrobe.loads = <<>> /\ ~wardrobe.failed)
        => wardrobe.wardrobeItems = PagesShown(wardrobe)

====
